---- MODULE Spec2Model ----
(***************************************************************************)
(* Intruder Escape (src/src/intruder_escape.py): the GridMaze object as a  *)
(* state machine.  One action per event handled by GridMaze.run (button    *)
(* clicks, grid clicks, key presses) and one for GridMaze.update_game.     *)
(*                                                                         *)
(* Cells are <<row, col>>, 0-based as in the source.  None is <<>>.        *)
(* robot_speed is kept in tenths (10 is 1.0, 11 is 1.1).                   *)
(* self.robots is a Python dict keyed by position: it is modelled as the   *)
(* sequence of its items in insertion order, with distinct positions.      *)
(* The wall-clock test of update_game (line 235) is an input of the tick:  *)
(* the elapsed time since last_update is not part of the state.            *)
(***************************************************************************)
EXTENDS Integers, Sequences, FiniteSets, Bags, TLC

\* ---- bounds of the model -------------------------------------------------
\* the game specification: grid side, obstacles and robots per layout,
\* steps between two speed increases, and the cap on the step counter
GameGridSize == 3
GameObstacles == 1
GameRobots == 2
GameSpeedSteps == 2
MaxSteps == 2
\* captures recorded in one run of the game specification
MaxGames == 1
\* the random draws of a layout: obstacles land on the first ObstacleSpread
\* cells and robots on the first RobotSpread cells, in row-major order
ObstacleSpread == 5
RobotSpread == 3

\* the score specification: a small board on which many games end, so that
\* the leaderboard overflows
ScoreGridSize == 2
ScoreRobots == 1
ScoreObstacles == 0
ScoreSteps == 2
ScoreGames == 6
\* the find_path specification: grid side and number of obstacles
PathGridSize == 5
PathObstacles == 1

\* the clock specification: the time between two readings of the clock and
\* the last time reached, in milliseconds, the captures and the moves of a run
FrameTime == 500
MaxTime == 3000
ClockGames == 2
ClockSteps == 2

\* the pursuit specification: the games that may be started and the moves of
\* a game
LiveGames == 1
LiveSteps == 1

\* ---- program constants ---------------------------------------------------
ROBOT_SPEED_INITIAL == 10
ROBOT_SPEED_INCREASE == 1
LEADERBOARD_SIZE == 5

None == <<>>

VARIABLES
    GRID_SIZE, NUM_ROBOTS, NUM_OBSTACLES, ROBOT_SPEED_INCREASE_STEPS,
    game_status, game_running, steps, high_score, robot_speed, robot_counter,
    grid, robots, intruder_pos, leaderboard,
    high_score_file, leaderboard_file,
    fp_start, fp_goal, fp_path,
    now, last_update,
    last_op, prev_status, moves, recorded, last_tick

config == <<GRID_SIZE, NUM_ROBOTS, NUM_OBSTACLES, ROBOT_SPEED_INCREASE_STEPS>>
session == <<game_status, game_running, steps, high_score, robot_speed,
             robot_counter, grid, robots, intruder_pos, leaderboard>>
files == <<high_score_file, leaderboard_file>>
call == <<fp_start, fp_goal, fp_path>>
\* now: the value of pygame.time.get_ticks(), in milliseconds; last_tick: the
\* time of the last tick of update_game, -1 before the first (history)
clock == <<now, last_update, last_tick>>
history == <<last_op, prev_status, moves, recorded>>
vars == <<config, session, files, call, clock, history>>

\* ---- the grid ------------------------------------------------------------
Cells == (0 .. GRID_SIZE - 1) \X (0 .. GRID_SIZE - 1)

InBounds(cell) ==
    /\ 0 <= cell[1] /\ cell[1] < GRID_SIZE
    /\ 0 <= cell[2] /\ cell[2] < GRID_SIZE

EmptyGrid == [c \in Cells |-> 0]

Abs(x) == IF x < 0 THEN -x ELSE x

manhattan_distance(a, b) == Abs(a[1] - b[1]) + Abs(a[2] - b[2])

\* ---- find_path -----------------------------------------------------------
\* the order in which find_path visits the neighbours of a cell
Directions == << <<0, 1>>, <<1, 0>>, <<0, -1>>, <<-1, 0>> >>

\* heapq compares the (f, (row, col)) tuples lexicographically
HeapLess(a, b) ==
    \/ a[1] < b[1]
    \/ a[1] = b[1] /\ a[2][1] < b[2][1]
    \/ a[1] = b[1] /\ a[2][1] = b[2][1] /\ a[2][2] < b[2][2]

\* heappop: the least entry of the open set (a cell has at most one entry)
HeapPop(open_set) == CHOOSE e \in open_set : \A o \in open_set \ {e} : HeapLess(e, o)

\* one neighbour of current: bounds and obstacle test, closed test, relaxation
\* and the push that is skipped when the neighbour already has an entry
VisitNeighbor(g, goal, s, current, d) ==
    LET neighbor == <<current[1] + d[1], current[2] + d[2]>> IN
    IF ~InBounds(neighbor) THEN s
    ELSE IF g[neighbor] = 1 THEN s
    ELSE IF neighbor \in s.closed_set THEN s
    ELSE LET tentative_g_score == s.g_score[current] + 1 IN
         IF neighbor \notin DOMAIN s.g_score \/ tentative_g_score < s.g_score[neighbor]
         THEN [s EXCEPT
                 !.came_from = (neighbor :> current) @@ @,
                 !.g_score = (neighbor :> tentative_g_score) @@ @,
                 !.open_set =
                     IF \E e \in @ : e[2] = neighbor
                     THEN @
                     ELSE @ \cup {<<tentative_g_score + manhattan_distance(neighbor, goal),
                                    neighbor>>}]
         ELSE s

RECURSIVE VisitNeighbors(_, _, _, _, _)
VisitNeighbors(g, goal, s, current, i) ==
    IF i > Len(Directions) THEN s
    ELSE VisitNeighbors(g, goal, VisitNeighbor(g, goal, s, current, Directions[i]),
                        current, i + 1)

\* the path read back from came_from, goal first, before it is reversed
RECURSIVE BackTrack(_, _, _)
BackTrack(came_from, current, start) ==
    IF current \in DOMAIN came_from
    THEN <<current>> \o BackTrack(came_from, came_from[current], start)
    ELSE <<start>>

Reverse(s) == [i \in 1 .. Len(s) |-> s[Len(s) + 1 - i]]

RECURSIVE SearchLoop(_, _, _, _)
SearchLoop(g, start, goal, s) ==
    IF s.open_set = {} THEN None
    ELSE LET top == HeapPop(s.open_set)
             current == top[2]
         IN IF current = goal
            THEN Reverse(BackTrack(s.came_from, current, start))
            ELSE SearchLoop(g, start, goal,
                     VisitNeighbors(g, goal,
                         [s EXCEPT !.open_set = @ \ {top},
                                   !.closed_set = @ \cup {current}],
                         current, 1))

\* a find_path that finds no path
find_path_none(g, start, goal) == None

find_path(g, start, goal) ==
    SearchLoop(g, start, goal,
        [open_set |-> {<<manhattan_distance(start, goal), start>>},
         closed_set |-> {},
         g_score |-> (start :> 0),
         came_from |-> <<>>])

\* ---- the robots dict ----------------------------------------------------
\* self.robots: the items <<position, number>> in insertion order
RobotCells(items) == {items[i][1] : i \in 1 .. Len(items)}

RobotNumbers(items) == {items[i][2] : i \in 1 .. Len(items)}

\* new_robots[pos] = number: an existing key keeps its place and takes the
\* new value, a new key goes to the end
DictSet(items, pos, number) ==
    IF \E i \in 1 .. Len(items) : items[i][1] = pos
    THEN [i \in 1 .. Len(items) |->
             IF items[i][1] = pos THEN <<pos, number>> ELSE items[i]]
    ELSE Append(items, <<pos, number>>)

\* MoveRobots applied in part: the first robot is advanced, the others are
\* left where they are
RECURSIVE MoveRobotsPartial(_, _, _, _, _)
MoveRobotsPartial(g, items, goal, i, new_robots) ==
    IF i > Len(items) THEN [captured |-> FALSE, robots |-> new_robots]
    ELSE LET pos == items[i][1]
             number == items[i][2]
             path == find_path(g, pos, goal)
         IN IF path # None /\ Len(path) > 1
            THEN IF path[2] = goal
                 THEN [captured |-> TRUE, robots |-> items]
                 ELSE MoveRobotsPartial(g, items, goal, i + 1,
                                        DictSet(new_robots,
                                                IF i = 1 THEN path[2] ELSE pos,
                                                number))
            ELSE MoveRobotsPartial(g, items, goal, i + 1,
                                   DictSet(new_robots, pos, number))

\* the loop of update_game over self.robots.items(): every robot asks
\* find_path for its way to the intruder from the robots of before the tick;
\* a robot stepping onto the intruder ends the loop at once (game_over and
\* return), before self.robots is replaced
RECURSIVE MoveRobots(_, _, _, _, _)
MoveRobots(g, items, goal, i, new_robots) ==
    IF i > Len(items) THEN [captured |-> FALSE, robots |-> new_robots]
    ELSE LET pos == items[i][1]
             number == items[i][2]
             path == find_path(g, pos, goal)
         IN IF path # None /\ Len(path) > 1
            THEN IF path[2] = goal
                 THEN [captured |-> TRUE, robots |-> items]
                 ELSE MoveRobots(g, items, goal, i + 1,
                                 DictSet(new_robots, path[2], number))
            ELSE MoveRobots(g, items, goal, i + 1, DictSet(new_robots, pos, number))

\* ---- scores --------------------------------------------------------------
\* list.sort(reverse=True), as an insertion sort
RECURSIVE SortDescending(_)
InsertDescending(sorted, x) ==
    LET before == SelectSeq(sorted, LAMBDA y : y >= x)
        after == SelectSeq(sorted, LAMBDA y : y < x)
    IN before \o <<x>> \o after

SortDescending(scores) ==
    IF scores = <<>> THEN <<>>
    ELSE InsertDescending(SortDescending(Tail(scores)), Head(scores))

\* a truncation that keeps the tail of the list instead of its head
KeepBottom(scores) ==
    IF Len(scores) <= LEADERBOARD_SIZE THEN scores
    ELSE SubSeq(scores, Len(scores) - LEADERBOARD_SIZE + 1, Len(scores))

\* scores[:5]
KeepTop(scores) ==
    IF Len(scores) <= LEADERBOARD_SIZE THEN scores
    ELSE SubSeq(scores, 1, LEADERBOARD_SIZE)

\* load_high_score: the stored number, 0 when there is no file
load_high_score(file) == IF file = None THEN 0 ELSE file[1]

\* load_leaderboard: the stored list, [] when there is no file
load_leaderboard(file) == IF file = None THEN <<>> ELSE file

\* update_leaderboard: the list that is saved and returned
update_leaderboard(file, score) ==
    KeepTop(SortDescending(Append(load_leaderboard(file), score)))

\* an update that takes the last score whatever the stored one
update_high_score_always(high, score) == score

\* update_high_score: the new in-memory high score
update_high_score(high, score) == IF score > high THEN score ELSE high

\* ---- layouts -------------------------------------------------------------
CellIndex(cell) == cell[1] * GRID_SIZE + cell[2]

RECURSIVE KSubsets(_, _)
KSubsets(S, k) ==
    IF k = 0 THEN {{}}
    ELSE IF S = {} THEN {}
    ELSE LET x == CHOOSE y \in S : TRUE
         IN KSubsets(S \ {x}, k) \cup {T \cup {x} : T \in KSubsets(S \ {x}, k - 1)}

RECURSIVE Placements(_, _)
Placements(S, n) ==
    IF n = 0 THEN {<<>>}
    ELSE UNION {{<<c>> \o p : p \in Placements(S \ {c}, n - 1)} : c \in S}

\* add_random_obstacles: NUM_OBSTACLES distinct cells of a fresh grid
RandomObstacles ==
    {[c \in Cells |-> IF c \in S THEN 1 ELSE 0] :
        S \in KSubsets({c \in Cells : CellIndex(c) < ObstacleSpread}, NUM_OBSTACLES)}

\* add_random_robots without its test that the cell is free
RandomRobotsAnywhere(g) ==
    {[i \in 1 .. NUM_ROBOTS |-> <<p[i], i>>] :
        p \in Placements({c \in Cells : CellIndex(c) < RobotSpread}, NUM_ROBOTS)}

\* add_random_robots: NUM_ROBOTS distinct free cells, numbered 1, 2, ... in
\* the order they are drawn
RandomRobots(g) ==
    {[i \in 1 .. NUM_ROBOTS |-> <<p[i], i>>] :
        p \in Placements({c \in Cells : CellIndex(c) < RobotSpread /\ g[c] = 0},
                         NUM_ROBOTS)}

\* ---- construction --------------------------------------------------------
\* __init__: the constants, the game state, new_random_layout, and the two
\* records read from disk.  fp_* hold one call of find_path and are unused
\* by the game.
Construct(size, num_robots, num_obstacles, speed_steps, hs_files, lb_files) ==
    /\ GRID_SIZE = size
    /\ NUM_ROBOTS = num_robots
    /\ NUM_OBSTACLES = num_obstacles
    /\ ROBOT_SPEED_INCREASE_STEPS = speed_steps
    /\ game_status = "setup"
    /\ game_running = FALSE
    /\ steps = 0
    /\ high_score_file \in hs_files
    /\ high_score = load_high_score(high_score_file)
    /\ robot_speed = ROBOT_SPEED_INITIAL
    /\ grid \in RandomObstacles
    /\ robots \in RandomRobots(grid)
    /\ robot_counter = NUM_ROBOTS + 1
    /\ intruder_pos = None
    /\ leaderboard_file \in lb_files
    /\ leaderboard = load_leaderboard(leaderboard_file)
    /\ fp_start = None /\ fp_goal = None /\ fp_path = None
    /\ now = 0
    /\ last_update = now
    /\ last_tick = -1
    /\ last_op = "init" /\ prev_status = "setup" /\ moves = 0
    /\ recorded = EmptyBag

\* ---- history (not program state) -----------------------------------------
\* last_op: the handler that ran last; prev_status: game_status before it;
\* moves: accepted player moves since the last honoured start request;
\* recorded: the bag of step counts of all captures so far
History(op, mv, rec) ==
    /\ last_op' = op
    /\ prev_status' = game_status
    /\ moves' = mv
    /\ recorded' = rec

\* ---- button handlers -----------------------------------------------------
\* clear_grid
clear_grid ==
    /\ grid' = EmptyGrid
    /\ robots' = <<>>
    /\ robot_counter' = 1
    /\ intruder_pos' = None
    /\ game_running' = FALSE
    /\ game_status' = "setup"
    /\ steps' = 0
    /\ robot_speed' = ROBOT_SPEED_INITIAL

\* MOUSEBUTTONDOWN on "Clear Grid"
ClickClearGrid ==
    /\ clear_grid
    /\ UNCHANGED <<config, high_score, leaderboard, files, call, clock>>
    /\ History("clear_grid", moves, recorded)

\* add_intruder_mode without its test of game_running
ClickPlaceIntruderUnguarded ==
    /\ game_status' = "setup"
    /\ UNCHANGED <<config, game_running, steps, high_score, robot_speed, robot_counter,
                   grid, robots, intruder_pos, leaderboard, files, call, clock>>
    /\ History("place_intruder", moves, recorded)

\* MOUSEBUTTONDOWN on "Place Intruder": add_intruder_mode
ClickPlaceIntruder ==
    /\ game_status' = IF ~game_running THEN "setup" ELSE game_status
    /\ UNCHANGED <<config, game_running, steps, high_score, robot_speed, robot_counter,
                   grid, robots, intruder_pos, leaderboard, files, call, clock>>
    /\ History("place_intruder", moves, recorded)

\* MOUSEBUTTONDOWN on "Start Game": start_game
ClickStartGame ==
    /\ IF intruder_pos = None
       THEN /\ UNCHANGED <<game_status, game_running, robot_speed, steps>>
            /\ History("start_refused", moves, recorded)
       ELSE /\ game_status' = "running"
            /\ game_running' = TRUE
            /\ robot_speed' = ROBOT_SPEED_INITIAL
            /\ steps' = 0
            /\ History("start_game", 0, recorded)
    /\ UNCHANGED <<config, high_score, robot_counter, grid, robots, intruder_pos,
                   leaderboard, files, call, clock>>

\* MOUSEBUTTONDOWN on "New Layout": new_random_layout
ClickNewLayout ==
    /\ grid' \in RandomObstacles
    /\ robots' \in RandomRobots(grid')
    /\ robot_counter' = NUM_ROBOTS + 1
    /\ intruder_pos' = None
    /\ game_running' = FALSE
    /\ game_status' = "setup"
    /\ steps' = 0
    /\ robot_speed' = ROBOT_SPEED_INITIAL
    /\ UNCHANGED <<config, high_score, leaderboard, files, call, clock>>
    /\ History("new_layout", moves, recorded)

\* MOUSEBUTTONDOWN inside the grid rectangle, on row, col (the far edge of the
\* rectangle gives row or col = GRID_SIZE)
ClickGrid(row, col) ==
    /\ intruder_pos' =
          IF /\ ~game_running
             /\ InBounds(<<row, col>>)
             /\ grid[<<row, col>>] = 0
             /\ <<row, col>> \notin RobotCells(robots)
          THEN <<row, col>>
          ELSE intruder_pos
    /\ UNCHANGED <<config, game_status, game_running, steps, high_score, robot_speed,
                   robot_counter, grid, robots, leaderboard, files, call, clock>>
    /\ History("click_grid", moves, recorded)

\* ---- key handler ---------------------------------------------------------
Keys == {"SPACE", "UP", "DOWN", "LEFT", "RIGHT", "OTHER"}

ArrowKeys == {"UP", "DOWN", "LEFT", "RIGHT"}

\* new_row, new_col of the KEYDOWN branch
KeyTarget(pos, key) ==
    CASE key = "UP" -> <<pos[1] - 1, pos[2]>>
      [] key = "DOWN" -> <<pos[1] + 1, pos[2]>>
      [] key = "LEFT" -> <<pos[1], pos[2] - 1>>
      [] key = "RIGHT" -> <<pos[1], pos[2] + 1>>
      [] OTHER -> pos

\* TargetFree without its obstacle test
TargetFreeBoundsOnly(g, target) == InBounds(target)

\* the target test of lines 468-470
TargetFree(g, target) == InBounds(target) /\ g[target] = 0

\* the speed after the step counter has reached new_steps
SpeedAfter(speed, new_steps) ==
    IF new_steps > 0 /\ new_steps % ROBOT_SPEED_INCREASE_STEPS = 0
    THEN speed + ROBOT_SPEED_INCREASE
    ELSE speed

\* KeyDown with the target test made in every state, running or not
KeyDownAnyState(key, step_cap) ==
    IF game_status = "gameover" /\ ~game_running
    THEN /\ clear_grid
         /\ UNCHANGED <<config, high_score, leaderboard, files, call, clock>>
         /\ History("key_dismiss", moves, recorded)
    ELSE LET started == key = "SPACE" /\ intruder_pos # None /\ ~game_running
             running == game_running \/ started
             target == KeyTarget(intruder_pos, key)
             moved == key \in ArrowKeys
             free == intruder_pos # None /\ TargetFree(grid, target)
             accepted == free /\ moved
         IN /\ accepted => steps < step_cap
            /\ game_running' = running
            /\ game_status' = IF started THEN "running" ELSE game_status
            /\ intruder_pos' = IF free THEN target ELSE intruder_pos
            /\ steps' = IF accepted THEN steps + 1 ELSE steps
            /\ robot_speed' = IF accepted THEN SpeedAfter(robot_speed, steps + 1)
                              ELSE robot_speed
            /\ UNCHANGED <<config, high_score, robot_counter, grid, robots,
                           leaderboard, files, call, clock>>
            /\ History(IF started THEN "start_key"
                       ELSE IF accepted THEN "move"
                       ELSE IF running /\ moved THEN "blocked"
                       ELSE "key",
                       IF started THEN 0 ELSE IF accepted THEN moves + 1 ELSE moves,
                       recorded)

\* KEYDOWN: in game over any key clears the session; SPACE starts a game when
\* the intruder is placed; while running an arrow key moves the intruder
KeyDown(key, step_cap) ==
    IF game_status = "gameover" /\ ~game_running
    THEN /\ clear_grid
         /\ UNCHANGED <<config, high_score, leaderboard, files, call, clock>>
         /\ History("key_dismiss", moves, recorded)
    ELSE LET started == key = "SPACE" /\ intruder_pos # None /\ ~game_running
             running == game_running \/ started
             target == KeyTarget(intruder_pos, key)
             moved == key \in ArrowKeys
             free == running /\ TargetFree(grid, target)
             accepted == free /\ moved
         IN /\ accepted => steps < step_cap
            /\ game_running' = running
            /\ game_status' = IF started THEN "running" ELSE game_status
            /\ intruder_pos' = IF free THEN target ELSE intruder_pos
            /\ steps' = IF accepted THEN steps + 1 ELSE steps
            /\ robot_speed' = IF accepted THEN SpeedAfter(robot_speed, steps + 1)
                              ELSE robot_speed
            /\ UNCHANGED <<config, high_score, robot_counter, grid, robots,
                           leaderboard, files, call, clock>>
            /\ History(IF started THEN "start_key"
                       ELSE IF accepted THEN "move"
                       ELSE IF running /\ moved THEN "blocked"
                       ELSE "key",
                       IF started THEN 0 ELSE IF accepted THEN moves + 1 ELSE moves,
                       recorded)

\* ---- the tick ------------------------------------------------------------
\* game_over: the state change, the high score and the leaderboard
game_over ==
    /\ game_running' = FALSE
    /\ game_status' = "gameover"
    /\ high_score' = update_high_score(high_score, steps)
    /\ high_score_file' = IF steps > high_score THEN <<steps>> ELSE high_score_file
    /\ leaderboard' = update_leaderboard(leaderboard_file, steps)
    /\ leaderboard_file' = update_leaderboard(leaderboard_file, steps)

\* update_game with a capture that also resets the step count and the speed
UpdateGameResetting(due, game_cap) ==
    IF ~game_running \/ ~due
    THEN /\ UNCHANGED <<config, session, files, call, clock>>
         /\ History("idle", moves, recorded)
    ELSE LET tick == MoveRobots(grid, robots, intruder_pos, 1, <<>>) IN
         IF tick.captured
         THEN /\ BagCardinality(recorded) < game_cap
              /\ game_over
              /\ steps' = 0
              /\ robot_speed' = ROBOT_SPEED_INITIAL
              /\ UNCHANGED <<config, robot_counter, grid, robots,
                             intruder_pos, call, now, last_update>>
              /\ last_tick' = now
              /\ History("capture", moves, recorded (+) SetToBag({steps}))
         ELSE /\ robots' = tick.robots
              /\ UNCHANGED <<config, game_status, game_running, steps, high_score,
                             robot_speed, robot_counter, grid, intruder_pos,
                             leaderboard, files, call, now>>
              /\ last_update' = now
              /\ last_tick' = now
              /\ History("tick", moves, recorded)

\* update_game; due is the outcome of the test
\* current_time - last_update >= 1000 / robot_speed: TimeGate where the clock
\* runs, an input where it stands still
UpdateGame(due, game_cap) ==
    IF ~game_running \/ ~due
    THEN /\ UNCHANGED <<config, session, files, call, clock>>
         /\ History("idle", moves, recorded)
    ELSE LET tick == MoveRobots(grid, robots, intruder_pos, 1, <<>>) IN
         IF tick.captured
         THEN /\ BagCardinality(recorded) < game_cap
              /\ game_over
              /\ UNCHANGED <<config, steps, robot_speed, robot_counter, grid, robots,
                             intruder_pos, call, now, last_update>>
              /\ last_tick' = now
              /\ History("capture", moves, recorded (+) SetToBag({steps}))
         ELSE /\ robots' = tick.robots
              /\ UNCHANGED <<config, game_status, game_running, steps, high_score,
                             robot_speed, robot_counter, grid, intruder_pos,
                             leaderboard, files, call, now>>
              /\ last_update' = now
              /\ last_tick' = now
              /\ History("tick", moves, recorded)

\* ---- the game ------------------------------------------------------------
Init ==
    Construct(GameGridSize, GameRobots, GameObstacles, GameSpeedSteps,
              {None}, {None})

Next ==
    \/ ClickClearGrid
    \/ ClickPlaceIntruder
    \/ ClickStartGame
    \/ ClickNewLayout
    \/ \E row \in 0 .. GRID_SIZE, col \in 0 .. GRID_SIZE : ClickGrid(row, col)
    \/ \E key \in Keys : KeyDown(key, MaxSteps)
    \/ \E due \in BOOLEAN : UpdateGame(due, MaxGames)

Spec == Init /\ [][Next]_vars

\* ---- many games on a small board ------------------------------------------
\* the same handlers; the stored high score is absent or 1 at construction
InitScores ==
    Construct(ScoreGridSize, ScoreRobots, ScoreObstacles, GameSpeedSteps,
              {None, <<1>>}, {None})

NextScores ==
    \/ ClickClearGrid
    \/ ClickPlaceIntruder
    \/ ClickStartGame
    \/ ClickNewLayout
    \/ \E row \in 0 .. GRID_SIZE, col \in 0 .. GRID_SIZE : ClickGrid(row, col)
    \/ \E key \in Keys : KeyDown(key, ScoreSteps)
    \/ \E due \in BOOLEAN : UpdateGame(due, ScoreGames)

SpecScores == InitScores /\ [][NextScores]_vars

\* ---- the game with its clock ----------------------------------------------
\* the test of update_game on the clock: current_time - last_update >=
\* 1000 / robot_speed, robot_speed being in tenths
TimeGate == (now - last_update) * robot_speed >= 1000 * ROBOT_SPEED_INITIAL

\* clock.tick(60) at the end of a frame: ms milliseconds pass
Elapse(ms, time_cap) ==
    /\ now + ms <= time_cap
    /\ now' = now + ms
    /\ UNCHANGED <<config, session, files, call, last_update, last_tick, history>>

\* the small board, the outcome of the time test taken from the clock
InitClock ==
    Construct(ScoreGridSize, ScoreRobots, ScoreObstacles, GameSpeedSteps,
              {None}, {None})

NextClock ==
    \/ ClickClearGrid
    \/ ClickPlaceIntruder
    \/ ClickStartGame
    \/ ClickNewLayout
    \/ \E row \in 0 .. GRID_SIZE, col \in 0 .. GRID_SIZE : ClickGrid(row, col)
    \/ \E key \in Keys : KeyDown(key, ClockSteps)
    \/ UpdateGame(TimeGate, ClockGames)
    \/ \E frames \in 1 .. 2 : Elapse(frames * FrameTime, MaxTime)

SpecClock == InitClock /\ [][NextClock]_vars

\* ---- the game with ticks that keep firing ----------------------------------
\* the 3x3 game; at most LiveGames games are started, so that no capture is
\* held back by the bound on the record of captures; update_game keeps being
\* called at times when its time test passes
CanStart == BagCardinality(recorded) < LiveGames

NextLive ==
    \/ ClickClearGrid
    \/ ClickPlaceIntruder
    \/ CanStart /\ ClickStartGame
    \/ ClickNewLayout
    \/ \E row \in 0 .. GRID_SIZE, col \in 0 .. GRID_SIZE : ClickGrid(row, col)
    \/ \E key \in Keys : (key = "SPACE" => CanStart) /\ KeyDown(key, LiveSteps)
    \/ \E due \in BOOLEAN : UpdateGame(due, LiveGames)

\* a call of update_game whose time test passes would change the state:
\* ENABLED <<UpdateGame(TRUE, LiveGames)>>_vars, written out
TickChanges ==
    IF ~game_running
    THEN last_op # "idle" \/ prev_status # game_status
    ELSE LET tick == MoveRobots(grid, robots, intruder_pos, 1, <<>>) IN
         IF tick.captured
         THEN BagCardinality(recorded) < LiveGames
         ELSE \/ tick.robots # robots
              \/ last_update # now \/ last_tick # now
              \/ last_op # "tick" \/ prev_status # game_status

\* the loop of run calls update_game in every frame: weak fairness of the
\* tick, WF_vars(UpdateGame(TRUE, LiveGames)), with its ENABLED written out
TickFairness ==
    []<>(~TickChanges) \/ []<><<UpdateGame(TRUE, LiveGames)>>_vars

SpecLive == Init /\ [][NextLive]_vars /\ TickFairness

\* ---- find_path on its own ------------------------------------------------
\* one call find_path(fp_start, fp_goal) on a grid with at most PathObstacles
\* obstacles; fp_path is its result
InitPath ==
    /\ GRID_SIZE = PathGridSize
    /\ NUM_ROBOTS = 0
    /\ NUM_OBSTACLES \in 0 .. PathObstacles
    /\ ROBOT_SPEED_INCREASE_STEPS = GameSpeedSteps
    /\ game_status = "setup"
    /\ game_running = FALSE
    /\ steps = 0
    /\ high_score_file = None
    /\ high_score = 0
    /\ robot_speed = ROBOT_SPEED_INITIAL
    /\ grid \in {[c \in Cells |-> IF c \in S THEN 1 ELSE 0] :
                    S \in KSubsets(Cells, NUM_OBSTACLES)}
    /\ robots = <<>>
    /\ robot_counter = 1
    /\ intruder_pos = None
    /\ leaderboard_file = None
    /\ leaderboard = <<>>
    /\ fp_start \in Cells
    /\ fp_goal \in Cells
    /\ fp_path = None
    /\ now = 0
    /\ last_update = now
    /\ last_tick = -1
    /\ last_op = "init" /\ prev_status = "setup" /\ moves = 0
    /\ recorded = EmptyBag

CallFindPath ==
    /\ last_op = "init"
    /\ fp_path' = find_path(grid, fp_start, fp_goal)
    /\ UNCHANGED <<config, session, files, fp_start, fp_goal, clock>>
    /\ History("find_path", moves, recorded)

NextPath == CallFindPath

SpecPath == InitPath /\ [][NextPath]_vars

\* ---- vocabulary of the properties ------------------------------------------
\* stated on the grid itself, not through the handlers' own tests
IsObstacle(cell) == cell \in DOMAIN grid /\ grid[cell] = 1

OutOfBounds(cell) == cell \notin Cells

RobotOn(cell) == \E i \in 1 .. Len(robots) : robots[i][1] = cell

ResetOps == {"clear_grid", "new_layout", "key_dismiss"}

StartOps == {"start_game", "start_key"}

\* ---- C1 ------------------------------------------------------------------
\* C1: in the state that follows a tick of update_game (capturing or not), a
\* robot standing on the intruder's cell means the game is over; no state
\* after a tick is running with a robot on the intruder's cell.
CaptureDetected ==
    (last_op \in {"tick", "capture"} /\ intruder_pos # None /\ RobotOn(intruder_pos))
        => game_status = "gameover"

\* ---- C2 ------------------------------------------------------------------
\* C2: a handler that runs in game over leaves the game in game over or takes
\* it to setup, and to setup only as a reset request (clear, new layout or
\* the dismissing key); never to running.
GameOverTerminal ==
    prev_status = "gameover" =>
        /\ game_status \in {"gameover", "setup"}
        /\ game_status = "setup" => last_op \in ResetOps

\* ---- C3 ------------------------------------------------------------------
\* C3: whenever a handler has taken the game from game over to setup, the
\* session is cleared: the intruder is unset, the step count is 0, the speed
\* is the initial speed, and (but for New Layout, which scatters again) the
\* grid has no obstacle and there is no robot.
ResetClearsSession ==
    (prev_status = "gameover" /\ game_status = "setup") =>
        /\ intruder_pos = None
        /\ steps = 0
        /\ robot_speed = ROBOT_SPEED_INITIAL
        /\ last_op # "new_layout" =>
              /\ \A c \in Cells : grid[c] = 0
              /\ robots = <<>>

\* ---- C4 ------------------------------------------------------------------
\* C4: right after an honoured start request (Start Game button or SPACE) that
\* takes the game from setup to running, the step count is 0 and the speed is
\* the initial speed.
StartResetsProgression ==
    (last_op \in StartOps /\ prev_status = "setup" /\ game_status = "running") =>
        /\ steps = 0
        /\ robot_speed = ROBOT_SPEED_INITIAL

\* ---- C5 ------------------------------------------------------------------
\* C5: a click on a grid cell made outside setup, or on a cell that is out of
\* bounds, an obstacle or holds a robot, changes neither the intruder nor any
\* other part of the session or of the stored records.
PlacementOnlyInSetup ==
    [][\A row \in 0 .. GRID_SIZE, col \in 0 .. GRID_SIZE :
          (/\ ClickGrid(row, col)
           /\ \/ game_status # "setup"
              \/ OutOfBounds(<<row, col>>)
              \/ IsObstacle(<<row, col>>)
              \/ RobotOn(<<row, col>>))
          => UNCHANGED <<session, files>>]_vars

\* ---- C6 ------------------------------------------------------------------
\* the cell next to pos in the direction of an arrow key
ArrowDelta ==
    [UP |-> <<-1, 0>>, DOWN |-> <<1, 0>>, LEFT |-> <<0, -1>>, RIGHT |-> <<0, 1>>]

Toward(pos, key) == <<pos[1] + ArrowDelta[key][1], pos[2] + ArrowDelta[key][2]>>

Blocked(cell) == OutOfBounds(cell) \/ IsObstacle(cell)

\* C6 as stated: in any state, an arrow key whose target cell is out of bounds
\* or an obstacle changes neither the intruder nor the step count nor the
\* speed; an arrow key towards a free cell while running moves the intruder
\* there and adds exactly 1 to the step count.
NoMoveOnBlocked ==
    [][\A key \in ArrowKeys :
          (KeyDown(key, MaxSteps) /\ intruder_pos # None) =>
              IF Blocked(Toward(intruder_pos, key))
              THEN UNCHANGED <<intruder_pos, steps, robot_speed>>
              ELSE game_status = "running" =>
                      /\ intruder_pos' = Toward(intruder_pos, key)
                      /\ steps' = steps + 1]_vars

\* C6 (amended): in setup and while running, an arrow key changes the intruder,
\* the step count or the speed only when the game is running and the target
\* cell is in bounds and free: the intruder then moves there and the step
\* count grows by exactly 1.  (In game over an arrow key, like any key,
\* dismisses the screen and clears the session.)
NoMoveOnBlockedBeforeGameOver ==
    [][\A key \in ArrowKeys :
          (KeyDown(key, MaxSteps) /\ game_status # "gameover") =>
              IF game_status = "running" /\ ~Blocked(Toward(intruder_pos, key))
              THEN /\ intruder_pos' = Toward(intruder_pos, key)
                   /\ steps' = steps + 1
              ELSE UNCHANGED <<intruder_pos, steps, robot_speed>>]_vars

\* a running game has just refused an arrow key, after an accepted move
BlockedMoveRefused ==
    /\ last_op = "blocked"
    /\ prev_status = "running"
    /\ game_status = "running"
    /\ steps > 0

\* ---- C7 ------------------------------------------------------------------
\* C7: in a running game, after k accepted player moves since the start
\* request that began it, the step count is k and the speed is the initial
\* speed plus one increase for every ROBOT_SPEED_INCREASE_STEPS moves.
SpeedProgression ==
    game_status = "running" =>
        /\ steps = moves
        /\ robot_speed = ROBOT_SPEED_INITIAL
                         + ROBOT_SPEED_INCREASE * (moves \div ROBOT_SPEED_INCREASE_STEPS)

\* ---- C8 ------------------------------------------------------------------
\* C8: the in-memory high score never decreases; it changes only in a step
\* that ends a running game by capture, and then to that game's step count,
\* which is greater than the old high score; after every capture the high
\* score is at least the final step count.
HighScoreMonotone ==
    [][/\ high_score' >= high_score
       /\ high_score' # high_score =>
             /\ game_status = "running" /\ game_status' = "gameover"
             /\ steps > high_score
             /\ high_score' = steps
       /\ (game_status = "running" /\ game_status' = "gameover") =>
             high_score' >= steps']_vars

\* a second or later capture whose step count is below the high score
CaptureBelowHighScore ==
    /\ last_op = "capture"
    /\ BagCardinality(recorded) >= 2
    /\ steps < high_score
    /\ BagIn(high_score, recorded)

\* ---- C9 ------------------------------------------------------------------
\* C9: starting from an empty record, the stored leaderboard (and its copy in
\* memory) is sorted in descending order, holds min(5, number of captures)
\* entries and is the top of all recorded scores: every entry is a recorded
\* score, no score appears more often than it was recorded, and a recorded
\* score that is missing from the board is not greater than any entry.
LeaderboardTopFive ==
    LET board == load_leaderboard(leaderboard_file)
        Count(v) == Cardinality({i \in 1 .. Len(board) : board[i] = v})
    IN /\ leaderboard = board
       /\ Len(board) = IF BagCardinality(recorded) < LEADERBOARD_SIZE
                       THEN BagCardinality(recorded)
                       ELSE LEADERBOARD_SIZE
       /\ \A i \in 1 .. Len(board) - 1 : board[i] >= board[i + 1]
       /\ \A i \in 1 .. Len(board) : BagIn(board[i], recorded)
       /\ \A v \in BagToSet(recorded) :
             /\ Count(v) <= CopiesIn(v, recorded)
             /\ Count(v) < CopiesIn(v, recorded) =>
                   \A i \in 1 .. Len(board) : board[i] >= v

\* a capture on a full board whose score enters it and pushes an entry out
LeaderboardOverflow ==
    /\ last_op = "capture"
    /\ BagCardinality(recorded) > LEADERBOARD_SIZE
    /\ Len(leaderboard_file) = LEADERBOARD_SIZE
    /\ steps > leaderboard_file[LEADERBOARD_SIZE]

\* ---- C10 -----------------------------------------------------------------
Adjacent(a, b) ==
    \/ a[1] = b[1] /\ (a[2] = b[2] + 1 \/ b[2] = a[2] + 1)
    \/ a[2] = b[2] /\ (a[1] = b[1] + 1 \/ b[1] = a[1] + 1)

FreeCells == {c \in Cells : grid[c] = 0}

\* breadth-first distance from the cells of frontier (at distance d) to goal
\* through free cells, -1 when goal cannot be reached
RECURSIVE BreadthFirst(_, _, _, _)
BreadthFirst(frontier, seen, goal, d) ==
    IF goal \in frontier THEN d
    ELSE LET next == {c \in FreeCells \ seen : \E f \in frontier : Adjacent(c, f)}
         IN IF next = {} THEN -1
            ELSE BreadthFirst(next, seen \cup next, goal, d + 1)

ShortestDistance(start, goal) == BreadthFirst({start}, {start}, goal, 0)

\* path is a walk from start to goal through free, 4-adjacent cells
IsFreeWalk(path, start, goal) ==
    /\ path # None
    /\ path[1] = start
    /\ path[Len(path)] = goal
    /\ \A i \in 1 .. Len(path) : path[i] \in FreeCells
    /\ \A i \in 1 .. Len(path) - 1 : Adjacent(path[i], path[i + 1])

\* C10: for free cells start and goal with goal reachable from start through
\* free 4-adjacent cells, find_path returns a walk from start to goal through
\* free 4-adjacent cells whose number of steps is the breadth-first distance.
PathOptimal ==
    (/\ last_op = "find_path"
     /\ fp_start \in FreeCells
     /\ fp_goal \in FreeCells
     /\ ShortestDistance(fp_start, fp_goal) >= 0)
    => /\ IsFreeWalk(fp_path, fp_start, fp_goal)
       /\ Len(fp_path) - 1 = ShortestDistance(fp_start, fp_goal)

\* ---- C11 -----------------------------------------------------------------
\* a walk from start to goal through free 4-adjacent cells exists
FreePathExists(start, goal) ==
    /\ start \in FreeCells
    /\ goal \in FreeCells
    /\ ShortestDistance(start, goal) >= 0

\* C11: for every grid and every start # goal, find_path returns None exactly
\* when no walk through free 4-adjacent cells leads from start to goal.
PathComplete ==
    (last_op = "find_path" /\ fp_start # fp_goal) =>
        (fp_path = None <=> ~FreePathExists(fp_start, fp_goal))

\* ---- C12 -----------------------------------------------------------------
\* the cell a robot at pos goes to in a tick: the second cell of its path to
\* goal, or pos when it has no path or a one-cell path
NextCell(g, pos, goal) ==
    LET path == find_path(g, pos, goal)
    IN IF path # None /\ Len(path) > 1 THEN path[2] ELSE pos

\* C12: a non-capturing tick keeps every robot: the robots after the tick are
\* the robots of before it, same numbers and same count, each on the next
\* cell computed from its own position of before the tick, also when two of
\* these next cells are the same cell.
TickKeepsRobots ==
    [][(last_op' = "tick" /\ UpdateGame(TRUE, MaxGames)) =>
          /\ Len(robots') = Len(robots)
          /\ RobotNumbers(robots') = RobotNumbers(robots)
          /\ \A i \in 1 .. Len(robots) :
                \E j \in 1 .. Len(robots') :
                   /\ robots'[j][2] = robots[i][2]
                   /\ robots'[j][1] = NextCell(grid, robots[i][1], intruder_pos)]_vars

\* ---- C13 -----------------------------------------------------------------
TickOps == {"tick", "capture"}

\* C13: a tick of update_game (capturing or not) that comes later than the
\* tick before it comes at least 1000 / speed milliseconds later, speed being
\* the robot speed at this tick (in tenths in the model); whatever happened
\* in between: capture, reset, restart.
TickGating ==
    [][(/\ last_op' \in TickOps
        /\ UpdateGame(TimeGate, ClockGames)
        /\ last_tick >= 0
        /\ last_tick < now)
       => (now - last_tick) * robot_speed >= 1000 * ROBOT_SPEED_INITIAL]_vars

\* ---- C14 -----------------------------------------------------------------
\* C14 as stated: in setup and in game over, a call of update_game (whatever
\* the time) leaves the robots where they are and captures nothing, and an
\* arrow key leaves the intruder and the step count unchanged.
QuietOutsideRunning ==
    [][(game_status \in {"setup", "gameover"}) =>
         (/\ \A due \in BOOLEAN :
                UpdateGame(due, MaxGames) =>
                    UNCHANGED <<robots, game_status, high_score, leaderboard, files>>
          /\ \A key \in ArrowKeys :
                KeyDown(key, MaxSteps) => UNCHANGED <<intruder_pos, steps>>)]_vars

\* C14 (amended): in setup and in game over, a call of update_game leaves the
\* robots where they are and captures nothing; in setup an arrow key leaves
\* the intruder and the step count unchanged.  (In game over an arrow key,
\* like any key, dismisses the screen: the intruder is unset and the step
\* count is 0.)
QuietOutsideRunningButDismiss ==
    [][(game_status \in {"setup", "gameover"}) =>
         (/\ \A due \in BOOLEAN :
                UpdateGame(due, MaxGames) =>
                    UNCHANGED <<robots, game_status, high_score, leaderboard, files>>
          /\ \A key \in ArrowKeys :
                KeyDown(key, MaxSteps) =>
                    IF game_status = "setup"
                    THEN UNCHANGED <<intruder_pos, steps>>
                    ELSE intruder_pos' = None /\ steps' = 0)]_vars

\* update_game has been called in game over, after a game with a move in it
TickOpportunityInGameOver ==
    /\ last_op = "idle"
    /\ prev_status = "gameover"
    /\ game_status = "gameover"
    /\ steps > 0

\* ---- C15 -----------------------------------------------------------------
\* C15: the step from running to game over leaves the step count and the
\* speed unchanged, so does every step that stays in game over, and a step
\* that takes the step count or the speed back to its initial value is a
\* start request or a reset (clear, new layout, dismissing key).
CaptureFreezesProgression ==
    [][/\ (game_status = "running" /\ game_status' = "gameover") =>
              UNCHANGED <<steps, robot_speed>>
       /\ (game_status = "gameover" /\ game_status' = "gameover") =>
              UNCHANGED <<steps, robot_speed>>
       /\ (\/ steps > 0 /\ steps' = 0
           \/ robot_speed > ROBOT_SPEED_INITIAL /\ robot_speed' = ROBOT_SPEED_INITIAL)
          => last_op' \in ResetOps \cup StartOps]_vars

\* a game captured after its speed went up, still in game over one handler
\* later
FrozenAfterCapture ==
    /\ prev_status = "gameover"
    /\ game_status = "gameover"
    /\ steps > 0
    /\ robot_speed > ROBOT_SPEED_INITIAL

\* ---- C16 -----------------------------------------------------------------
\* C16, for one robot: a robot on the free cell fp_start with the intruder on
\* the free cell fp_goal, two or more steps away through free cells (so that
\* its step captures nothing), goes in a tick to the second cell of the path
\* find_path gives it; that cell is free, 4-adjacent to fp_start and one step
\* nearer to the intruder than fp_start is.
RobotStepShortens ==
    (/\ last_op = "find_path"
     /\ fp_start \in FreeCells
     /\ fp_goal \in FreeCells
     /\ ShortestDistance(fp_start, fp_goal) >= 2)
    => /\ fp_path # None
       /\ Len(fp_path) > 1
       /\ fp_path[2] = NextCell(grid, fp_start, fp_goal)
       /\ fp_path[2] \in FreeCells
       /\ Adjacent(fp_start, fp_path[2])
       /\ ShortestDistance(fp_path[2], fp_goal) = ShortestDistance(fp_start, fp_goal) - 1

\* ---- C17 -----------------------------------------------------------------
\* C17: a tick is applied as a whole or not at all: after a capturing tick
\* the robots are exactly those of before the tick; after any other tick the
\* cells holding a robot are exactly the next cells of all the robots of
\* before the tick, none left on a cell it should have left.
TickAtomic ==
    [][(last_op' \in TickOps /\ UpdateGame(TRUE, MaxGames)) =>
          IF last_op' = "capture"
          THEN robots' = robots
          ELSE RobotCells(robots') =
                   {NextCell(grid, robots[i][1], intruder_pos) : i \in 1 .. Len(robots)}]_vars

\* a capture by the second robot, the first having a step of its own to make
CaptureAfterComputedMove ==
    /\ last_op = "capture"
    /\ Len(robots) = 2
    /\ NextCell(grid, robots[1][1], intruder_pos) \notin {robots[1][1], intruder_pos}
    /\ NextCell(grid, robots[2][1], intruder_pos) = intruder_pos

\* ---- C18 -----------------------------------------------------------------
\* C18: find_path called with a start or a goal that is an obstacle or out of
\* bounds returns None.
InvalidEndpointRejected ==
    (last_op = "find_path" /\ (Blocked(fp_start) \/ Blocked(fp_goal)))
        => fp_path = None

\* ---- C19 -----------------------------------------------------------------
\* C19: between handlers, game_running is true exactly when game_status is
\* "running", and a running game has its intruder placed, so that a tick
\* never asks find_path for the way to an unset goal.
RunningConsistent ==
    /\ game_running <=> game_status = "running"
    /\ game_status = "running" => intruder_pos # None
    /\ game_status \in {"setup", "running", "gameover"}

\* the Place Intruder button clicked in a running game that has had a tick
PlaceIntruderWhileRunning ==
    /\ last_op = "place_intruder"
    /\ prev_status = "running"
    /\ game_running
    /\ last_tick >= 0

\* ---- C20 -----------------------------------------------------------------
\* C20: in every reachable state every robot stands on an in-bounds cell that
\* is not an obstacle, the robot numbers are pairwise distinct and lie in
\* 1 .. NUM_ROBOTS, and the intruder, when placed, stands on an in-bounds cell
\* that is not an obstacle.
OccupancyValid ==
    /\ \A i \in 1 .. Len(robots) :
          /\ ~Blocked(robots[i][1])
          /\ robots[i][2] \in 1 .. NUM_ROBOTS
    /\ \A i, j \in 1 .. Len(robots) : i # j => robots[i][2] # robots[j][2]
    /\ intruder_pos # None => ~Blocked(intruder_pos)

\* a tick in a game with a move made, all robots there, the intruder beside
\* an obstacle
TickBesideObstacle ==
    /\ last_op = "tick"
    /\ steps > 0
    /\ Len(robots) = NUM_ROBOTS
    /\ \E c \in Cells : IsObstacle(c) /\ Adjacent(c, intruder_pos)

\* ---- C21 -----------------------------------------------------------------
\* the values of last_op left by a call of update_game
UpdateOps == {"idle", "tick", "capture"}

\* some robot has a walk of at least one step through free cells to the
\* intruder
RobotCanReach ==
    /\ intruder_pos # None
    /\ \E i \in 1 .. Len(robots) :
          /\ robots[i][1] # intruder_pos
          /\ FreePathExists(robots[i][1], intruder_pos)

====
